---- MODULE Spec2Model ----
(***************************************************************************)
(* BridgeFi backend: quote ledger, on-ramp / off-ramp settlement, rate     *)
(* cache and transaction journal (src/backend).                            *)
(*                                                                         *)
(* The backend is one Node.js process.  Every HTTP request is an async     *)
(* handler that runs without interruption between two awaits, so one step  *)
(* of the model is one such synchronous block of one request; the          *)
(* outcome of the awaited external call (gateway, chain, rate source) is   *)
(* chosen when the request resumes.                                        *)
(***************************************************************************)
EXTENDS Integers, Sequences, FiniteSets, TLC

(* ----------------------------- bounds ---------------------------------- *)
\* number of HTTP requests in one behaviour
MaxCalls == 2

(* ------------------------- values and inputs --------------------------- *)
Slots == 1..MaxCalls
\* a quote id is <<prefix, n>>; n = 0 is an id issued before the last restart
\* (no longer in the store), n > 0 is the id issued by request n
OffId(n) == <<"OFFRAMP", n>>
OnId(n) == <<"ONRAMP", n>>
QuoteNs == {0} \cup Slots

NaN == -1                    \* undefined / NaN amount
Truthy(a) == a # NaN /\ a # 0
Null == "null"
NoAddr == ""                 \* null or '' user address (both falsy)
TxHashes == {"0xok", "0xrev"}
\* the chain state of the user's custody-bound transfer named by a hash
ChainConfirmed(h) == h = "0xok"

\* what each rate source quotes when it answers
BaseRate(src) == IF src = "Binance" THEN 1000 ELSE 1500
Scale == 1000000             \* fixed-point unit of USDC amounts (micro-USDC)
MarginPct == 2
InitialTreasury == 1000000

\* JS multiplication on the modelled values: undefined * x is NaN, null is 0
Mul(a, b) == IF a = NaN \/ b = NaN THEN NaN ELSE a * b

(* ------------------------------ rate ----------------------------------- *)
NullRate == [usdcToNgn |-> 0, ngnToUsdc |-> 0, source |-> "none"]
Sources == <<"Binance", "CoinGecko">>
MarginedRate_Unpaired(base, src) ==
  [usdcToNgn |-> (base * (100 + MarginPct)) \div 100,
   ngnToUsdc |-> Scale \div base,
   source |-> src]
\* rateCache object built from a source's base rate
MarginedRate(base, src) ==
  LET rateWithMargin == (base * (100 + MarginPct)) \div 100
  IN  [usdcToNgn |-> rateWithMargin,
       ngnToUsdc |-> Scale \div rateWithMargin,
       source |-> src]

(* --------------------------- quote data -------------------------------- *)
NoData == [present |-> FALSE, usdcAmount |-> NaN, ngnAmount |-> NaN,
           bank |-> FALSE, userAddress |-> ""]
OffData(u, b, a) == [present |-> TRUE, usdcAmount |-> u, ngnAmount |-> NaN,
                     bank |-> b, userAddress |-> a]
OnData(n, a) == [present |-> TRUE, usdcAmount |-> NaN, ngnAmount |-> n,
                 bank |-> FALSE, userAddress |-> a]
\* the redundant data a client may send with POST /offramp/execute
OffQuoteDatas ==
  { NoData,
    OffData(1, TRUE, "0xA"),     \* complete
    OffData(1, TRUE, ""),        \* bank details, no owner address
    OffData(1, FALSE, "0xA") }   \* bank details missing
\* the redundant data a client may send with POST /onramp/verify
OnQuoteDatas ==
  { NoData,
    OnData(1500, "0xA"),
    OnData(0, "0xA"),            \* parseFloat(ngnAmount || '0')
    OnData(1500, "") }           \* address || ''

(* ----------------------------- objects --------------------------------- *)
NoQuote == [dir |-> "none", usdcAmount |-> 0, ngnAmount |-> 0, bank |-> FALSE,
            rate |-> 0, status |-> "absent", txHash |-> Null,
            userAddress |-> NoAddr, transferReference |-> Null, error |-> ""]

\* an HTTP response: status code, error message, data.transferReference or
\* data.txHash (ref), data amount, and the refund object of /offramp/execute
NoResp == [code |-> 0, error |-> "", ref |-> Null, amount |-> 0,
           refund |-> "none", refundError |-> "", refundTx |-> Null]
OkResp(ref, amount) == [NoResp EXCEPT !.code = 200, !.ref = ref, !.amount = amount]
ErrResp(code, msg) == [NoResp EXCEPT !.code = code, !.error = msg]

\* a value of a JSON request body: its text, whether it is a JSON number,
\* the number its longest numeric prefix denotes (NaN: none), and whether
\* the whole text denotes a number
RawValue(s, isNumber, lead, numeric) ==
  [s |-> s, isNumber |-> isNumber, lead |-> lead, numeric |-> numeric]
NoRaw == RawValue("", FALSE, NaN, FALSE)

IdleCall == [kind |-> "idle", n |-> 0, txHash |-> Null, qd |-> NoData,
             raw |-> NoRaw,
             amount |-> 0, addr |-> NoAddr, bank |-> FALSE,
             event |-> "", prefix |-> "", sig |-> <<>>, pc |-> "idle",
             quote |-> 0,
             found |-> FALSE, seen |-> "", userAddress |-> NoAddr,
             err |-> "", chainTx |-> Null, resp |-> NoResp]

VARIABLES
  calls,          \* request slot -> the request's arguments, locals and position
  nCalls,         \* number of requests started
  heap,           \* quote objects, named by the request that created them
  offQuotes,      \* offramp.js `quotes`: id number -> object (0: no entry)
  onQuotes,       \* onramp.js `quotes`: reference number -> object (0: no entry)
  journal,        \* transactionHistory.js `transactions`, in insertion order
  rateCache,      \* exchangeRate.js `rateCache`
  cacheFresh,     \* Date.now() - rateCache.timestamp < cacheMaxAge
         \* background refreshes done
  paid,           \* gateway: the charge with this reference has settled
  gateway,        \* spy on the payment gateway adapter
  chain,          \* spy on the chain client: treasury transfers
  treasury,       \* treasury USDC balance (micro-USDC)
  page,           \* OnrampProcessingPage: the client's verification poll
  listing         \* the last answer of GET /api/transactions

vars == <<calls, nCalls, heap, offQuotes, onQuotes, journal, rateCache,
          cacheFresh, paid, gateway, chain, treasury, page, listing>>
\* the state no settlement request touches
outside == <<page, listing>>

\* OnrampProcessingPage before its effect runs
IdlePage == [pc |-> "idle", reference |-> FALSE, attempts |-> 0,
             requests |-> 0, stage |-> "payment", status |-> "idle",
             error |-> "", lastError |-> "", txHash |-> Null,
             unsettledOnly |-> TRUE]
\* no GET /api/transactions answered yet
NoListing == [code |-> 0, owner |-> "", type |-> Null, status |-> Null,
              limit |-> 0, offset |-> 0, transactions |-> <<>>, total |-> 0]

\* the services' state after the modules are loaded
InitServices ==
  /\ calls = [c \in Slots |-> IdleCall]
  /\ nCalls = 0
  /\ heap = [c \in Slots |-> NoQuote]
  /\ offQuotes = [n \in QuoteNs |-> 0]
  /\ onQuotes = [n \in QuoteNs |-> 0]
  /\ rateCache = NullRate
  /\ cacheFresh = FALSE
  /\ paid = [n \in QuoteNs |-> FALSE]
  /\ gateway = [verify |-> [n \in QuoteNs |-> 0],
                recipient |-> [n \in QuoteNs |-> 0],
                payout |-> [n \in QuoteNs |-> 0],
                paidOut |-> [n \in QuoteNs |-> 0],
                charge |-> [n \in QuoteNs |-> 0]]
  /\ chain = [sent |-> <<>>, refundCalls |-> <<>>]
  /\ treasury = InitialTreasury

Init ==
  /\ InitServices
  /\ journal = <<>>
  /\ page = IdlePage
  /\ listing = NoListing

(* ------------------------ transaction journal -------------------------- *)
\* recordTransaction: the entry's id is the given id or, when none is given,
\* a generated `${type}_${Date.now()}_${random}`
GeneratedId(j, type) == <<type, Len(j) + 1>>
RecordTransaction(j, id, type, userAddress, amount, status, txHash, reference) ==
  Append(j, [id |-> IF id = Null THEN GeneratedId(j, type) ELSE id,
             type |-> type, userAddress |-> userAddress, amount |-> amount,
             status |-> status, txHash |-> txHash, reference |-> reference,
             error |-> "", timestamp |-> Len(j) + 1])
\* transactions.get(transactionId) finds an entry
HasTransaction(j, id) == \E i \in 1..Len(j) : j[i].id = id
\* updateTransactionStatus on an entry that exists (it throws otherwise)
UpdateTransactionStatus(j, id, status, txHash, reference, error) ==
  [i \in 1..Len(j) |->
     IF j[i].id = id
     THEN [j[i] EXCEPT !.status = status,
                       !.txHash = IF txHash # Null THEN txHash ELSE @,
                       !.reference = IF reference # Null THEN reference ELSE @,
                       !.error = IF error # "" THEN error ELSE @]
     ELSE j[i]]

(* ---------------------------- rate oracle ------------------------------ *)
CacheHit_Stale == rateCache.usdcToNgn # 0 /\ ~cacheFresh
\* getUSDCToNGNRate serves the cache: a rate is cached and younger than the TTL
CacheHit == rateCache.usdcToNgn # 0 /\ cacheFresh
\* the outcomes of one pass over RATE_SOURCES: the first source that answers
\* with a positive rate, or none
FetchOutcomes ==
  {MarginedRate(BaseRate(Sources[i]), Sources[i]) : i \in 1..Len(Sources)}
    \cup {NullRate}

\* what fetchUSDCToNGNRate returns after a pass with outcome r: the new
\* cache object, or the cache as it was when every source failed
Fetched(r) == IF r = NullRate THEN rateCache ELSE r
\* fetchUSDCToNGNRate resolves with outcome r
FetchResolves(r) ==
  /\ rateCache' = Fetched(r)
  /\ cacheFresh' = IF r = NullRate THEN cacheFresh ELSE TRUE

\* the setInterval refresh (and the fetch of initialize)
BackgroundRefresh ==
  /\ \E r \in FetchOutcomes \ {NullRate} :
       /\ rateCache' = r
       /\ cacheFresh' = TRUE
  /\ UNCHANGED <<calls, nCalls, heap, offQuotes, onQuotes, journal, paid,
                 gateway, chain, treasury>>
  /\ UNCHANGED outside

\* time passes: the cached rate becomes older than the TTL
CacheExpire ==
  /\ cacheFresh
  /\ cacheFresh' = FALSE
  /\ UNCHANGED <<calls, nCalls, heap, offQuotes, onQuotes, journal, rateCache,
                  paid, gateway, chain, treasury>>
  /\ UNCHANGED outside

(* ------------------------- requests: start ----------------------------- *)
CanStart(c) == c = nCalls + 1 /\ c \in Slots

(* ---------------------- POST /offramp/initiate ------------------------- *)
\* request bodies: <<usdcAmount, bank details present>>
OffInitInputs == {<<2, TRUE>>, <<0, TRUE>>, <<-5, TRUE>>, <<2, FALSE>>}
\* the off-ramp quote initiateOfframp stores
NewOffQuote(usdc, rate) ==
  [NoQuote EXCEPT !.dir = "off", !.usdcAmount = usdc,
                  !.ngnAmount = Mul(usdc, rate.usdcToNgn) - 0,
                  !.bank = TRUE, !.rate = rate.usdcToNgn, !.status = "pending"]

\* initiateOfframp after the rate: store the quote, return its projection
OffInitStore(c, call, rate) ==
  LET q == NewOffQuote(call.amount, rate)
  IN  /\ heap' = [heap EXCEPT ![c] = q]
      /\ offQuotes' = [offQuotes EXCEPT ![c] = c]
      /\ calls' = [calls EXCEPT ![c] =
           [call EXCEPT !.pc = "done", !.quote = c,
                        !.resp = OkResp(OffId(c), q.ngnAmount)]]

\* server.js: the handler's presence check, then initiateOfframp's
\* validation; a fresh cached rate is used at once
OffInitStart(c) ==
  /\ CanStart(c)
  /\ nCalls' = c
  /\ \E in \in OffInitInputs :
       LET usdc == in[1]
           bank == in[2]
           call == [IdleCall EXCEPT !.kind = "initOff", !.amount = usdc,
                                    !.bank = bank]
       IN  IF usdc = 0 \/ ~bank
           THEN /\ calls' = [calls EXCEPT ![c] = [call EXCEPT !.pc = "done",
                       !.resp = ErrResp(400, "Missing required fields")]]
                /\ UNCHANGED <<heap, offQuotes>>
           ELSE IF usdc <= 0
           THEN /\ calls' = [calls EXCEPT ![c] = [call EXCEPT !.pc = "done",
                       !.resp = ErrResp(500, "Invalid USDC amount")]]
                /\ UNCHANGED <<heap, offQuotes>>
           ELSE IF CacheHit
           THEN OffInitStore(c, call, rateCache)
           ELSE /\ calls' = [calls EXCEPT ![c] = [call EXCEPT !.pc = "fetch"]]
                /\ UNCHANGED <<heap, offQuotes>>
  /\ UNCHANGED <<onQuotes, journal, rateCache, cacheFresh,
                 paid, gateway, chain, treasury>>
  /\ UNCHANGED outside

\* the rate fetch awaited by initiateOfframp resolves
OffInitFetched(c) ==
  /\ calls[c].kind = "initOff" /\ calls[c].pc = "fetch"
  /\ \E r \in FetchOutcomes :
       /\ FetchResolves(r)
       /\ OffInitStore(c, calls[c], Fetched(r))
  /\ UNCHANGED <<nCalls, onQuotes, journal, paid, gateway, chain, treasury>>
  /\ UNCHANGED outside

(* ----------------------- POST /offramp/execute ------------------------- *)
\* server.js catch block: the refund is attempted when the request carries
\* a user address and a USDC amount
RefundEligible(qd) == qd.present /\ qd.userAddress # NoAddr /\ Truthy(qd.usdcAmount)

\* the three 500 responses of the handler's catch block
PlainFailureResp(msg) == ErrResp(500, msg)
RefundedResp(msg, tx) == [ErrResp(500, msg) EXCEPT !.refund = "ok", !.refundTx = tx]
RefundFailedResp_Dropped(msg, refundError) == ErrResp(500, msg)
RefundFailedResp(msg, refundError) ==
  [ErrResp(500, msg) EXCEPT !.refund = "failed", !.refundError = refundError]

\* the handler catches the error thrown by executeOfframp
HandlerCatch(c, call, msg) ==
  IF RefundEligible(call.qd)
  THEN /\ calls' = [calls EXCEPT ![c] = [call EXCEPT !.pc = "refund", !.err = msg]]
       /\ chain' = [chain EXCEPT !.refundCalls =
            Append(@, [call |-> c, to |-> call.qd.userAddress,
                       amount |-> call.qd.usdcAmount, txHash |-> call.txHash,
                       reason |-> msg, outcome |-> "pending"])]
  ELSE /\ calls' = [calls EXCEPT ![c] =
            [call EXCEPT !.pc = "done", !.err = msg,
                         !.resp = PlainFailureResp(msg)]]
       /\ chain' = chain

OffDataSufficient_PresentOnly(qd) == qd.present
\* executeOfframp recreates a missing quote when the request carries the
\* bank account, bank code and account name
OffDataSufficient(qd) == qd.present /\ qd.bank
\* the quote executeOfframp recreates from quoteData at the rate just fetched
RecreatedOffQuote(qd, rate) ==
  [NoQuote EXCEPT !.dir = "off", !.usdcAmount = qd.usdcAmount,
                  !.ngnAmount = Mul(qd.usdcAmount, rate.usdcToNgn),
                  !.bank = TRUE, !.rate = rate.usdcToNgn, !.status = "pending",
                  !.userAddress = qd.userAddress]

\* the status check of executeOfframp lets these statuses through
OffStatusOpen(status) == status = "pending" \/ status = "processing"
AlreadyProcessed(status) ==
  IF status = "completed" THEN "Quote already processed with status: completed"
  ELSE "Quote already processed with status: failed"
QuoteNotFound == "Quote not found"

\* executeOfframp from the user-address lookup to the call of
\* createTransferRecipient, on the quote object call.quote of heap hp
ExecProceed(c, call, hp) ==
  LET q == call.quote
      quote == hp[q]
      userAddress == IF quote.userAddress # NoAddr THEN quote.userAddress
                     ELSE IF call.qd.present THEN call.qd.userAddress
                     ELSE NoAddr
      marked == [call EXCEPT !.userAddress = userAddress,
                             !.seen = quote.status]
  IN  IF ~OffStatusOpen(quote.status)
      THEN /\ heap' = hp
           /\ journal' = journal
           /\ gateway' = gateway
           /\ HandlerCatch(c, marked, AlreadyProcessed(quote.status))
      ELSE /\ heap' = [hp EXCEPT ![q].txHash = call.txHash,
                                 ![q].status = "processing"]
           /\ journal' =
                IF userAddress # NoAddr
                THEN RecordTransaction(journal, Null, "offramp", userAddress,
                       quote.usdcAmount, "processing", call.txHash, OffId(call.n))
                ELSE journal
           /\ gateway' = [gateway EXCEPT !.recipient[call.n] = @ + 1]
           /\ calls' = [calls EXCEPT ![c] = [marked EXCEPT !.pc = "recipient"]]
           /\ chain' = chain

\* the ids a client can name: an id the server has issued, or a lost one
KnownOff(n) == n = 0 \/ offQuotes[n] # 0

\* the quote is recreated at the given rate, stored, and execution goes on
ExecRecreate(c, call, rate) ==
  LET mine == [call EXCEPT !.quote = c]
      hp == [heap EXCEPT ![c] = RecreatedOffQuote(call.qd, rate)]
  IN  /\ offQuotes' = [offQuotes EXCEPT ![call.n] = c]
      /\ ExecProceed(c, mine, hp)

QuoteMissing_Always(ref) == TRUE
\* quotes.get(quoteId) misses
QuoteMissing(ref) == ref = 0

ExecuteStart(c) ==
  /\ CanStart(c)
  /\ nCalls' = c
  /\ \E n \in QuoteNs, h \in TxHashes, qd \in OffQuoteDatas :
       /\ KnownOff(n)
       /\ LET call == [IdleCall EXCEPT !.kind = "execute", !.n = n,
                         !.txHash = h, !.qd = qd, !.quote = offQuotes[n],
                         !.found = ~QuoteMissing(offQuotes[n])]
          IN  IF QuoteMissing(offQuotes[n])
              THEN IF OffDataSufficient(qd)
                   THEN IF CacheHit
                        THEN ExecRecreate(c, call, rateCache)
                        ELSE /\ calls' = [calls EXCEPT ![c] =
                                  [call EXCEPT !.pc = "fetch"]]
                             /\ UNCHANGED <<heap, offQuotes, journal, gateway, chain>>
                   ELSE /\ UNCHANGED <<heap, offQuotes, journal, gateway>>
                        /\ HandlerCatch(c, call, QuoteNotFound)
              ELSE /\ offQuotes' = offQuotes
                   /\ ExecProceed(c, call, heap)
  /\ UNCHANGED <<onQuotes, rateCache, cacheFresh, paid, treasury>>
  /\ UNCHANGED outside

\* the rate fetch awaited by executeOfframp resolves
ExecFetched(c) ==
  /\ calls[c].kind = "execute" /\ calls[c].pc = "fetch"
  /\ \E r \in FetchOutcomes :
       /\ FetchResolves(r)
       /\ ExecRecreate(c, calls[c], Fetched(r))
  /\ UNCHANGED <<nCalls, onQuotes, paid, treasury>>
  /\ UNCHANGED outside

ExecFailed_StatusKept(c, call, hp, msg) ==
  /\ heap' = hp
  /\ journal' =
       IF call.userAddress # NoAddr /\ HasTransaction(journal, OffId(call.n))
       THEN UpdateTransactionStatus(journal, OffId(call.n), "failed", Null, Null, msg)
       ELSE journal
  /\ HandlerCatch(c, call, msg)
\* the catch block of executeOfframp, then the handler's
ExecFailed(c, call, hp, msg) ==
  /\ heap' = [hp EXCEPT ![call.quote].status = "failed",
                        ![call.quote].error = msg]
  /\ journal' =
       IF call.userAddress # NoAddr /\ HasTransaction(journal, OffId(call.n))
       THEN UpdateTransactionStatus(journal, OffId(call.n), "failed", Null, Null, msg)
       ELSE journal
  /\ HandlerCatch(c, call, msg)

\* createTransferRecipient resolves
ExecRecipient(c) ==
  /\ calls[c].kind = "execute" /\ calls[c].pc = "recipient"
  /\ \/ /\ gateway' = gateway
        /\ ExecFailed(c, calls[c], heap, "Failed to create transfer recipient")
     \/ /\ gateway' = [gateway EXCEPT !.payout[calls[c].n] = @ + 1]
        /\ calls' = [calls EXCEPT ![c].pc = "transfer"]
        /\ UNCHANGED <<heap, journal, chain>>
  /\ UNCHANGED <<nCalls, offQuotes, onQuotes, rateCache, cacheFresh,
                 paid, treasury>>
  /\ UNCHANGED outside

\* transfer.data.reference || transfer.data.transfer_code: the gateway echoes
\* the reference it was given, or (mock mode) returns a fresh transfer code
TransferRefs(n) == {<<"REF", n, 0>>, <<"CODE", n, gateway.paidOut[n] + 1>>}

\* initiateTransfer resolves
ExecTransfer(c) ==
  /\ calls[c].kind = "execute" /\ calls[c].pc = "transfer"
  /\ LET call == calls[c]
         q == call.quote
     IN  \/ /\ gateway' = gateway
            /\ ExecFailed(c, call, heap, "Failed to initiate transfer")
         \/ \E ref \in TransferRefs(call.n) :
              LET done == [heap EXCEPT ![q].status = "completed",
                                       ![q].transferReference = ref]
              IN  /\ gateway' = [gateway EXCEPT !.paidOut[call.n] = @ + 1]
                  /\ IF call.userAddress # NoAddr
                        /\ ~HasTransaction(journal, OffId(call.n))
                     THEN \* updateTransactionStatus throws inside the try
                          ExecFailed(c, call, done, "Transaction not found")
                     ELSE /\ heap' = done
                          /\ journal' =
                               IF call.userAddress # NoAddr
                               THEN UpdateTransactionStatus(journal, OffId(call.n),
                                      "completed", call.txHash, ref, "")
                               ELSE journal
                          /\ chain' = chain
                          /\ calls' = [calls EXCEPT ![c].pc = "done",
                               ![c].resp = OkResp(done[q].transferReference,
                                                  done[q].ngnAmount)]
  /\ UNCHANGED <<nCalls, offQuotes, onQuotes, rateCache, cacheFresh,
                 paid, treasury>>
  /\ UNCHANGED outside

TreasuryTx_ToTreasury(c, kind, to, amount, ref) ==
  [by |-> c, kind |-> kind, to |-> "0xtreasury", amount |-> amount, ref |-> ref,
   hash |-> <<"0xtreasury", Len(chain.sent) + 1>>]
\* a treasury transfer as the chain client records it
TreasuryTx(c, kind, to, amount, ref) ==
  [by |-> c, kind |-> kind, to |-> to, amount |-> amount, ref |-> ref,
   hash |-> <<"0xtreasury", Len(chain.sent) + 1>>]
\* the chain client's record of request c's refundUSDC call gets its outcome
RefundOutcome(c, outcome) ==
  [i \in 1..Len(chain.refundCalls) |->
     IF chain.refundCalls[i].call = c
     THEN [chain.refundCalls[i] EXCEPT !.outcome = outcome]
     ELSE chain.refundCalls[i]]

\* refundUSDC, awaited by the handler's catch block, resolves
ExecRefund(c) ==
  /\ calls[c].kind = "execute" /\ calls[c].pc = "refund"
  /\ LET call == calls[c]
         amount == call.qd.usdcAmount * Scale
         tx == TreasuryTx(c, "refund", call.qd.userAddress, amount, call.txHash)
     IN  \/ /\ treasury >= amount
            /\ treasury' = treasury - amount
            /\ chain' = [sent |-> Append(chain.sent, tx),
                         refundCalls |-> RefundOutcome(c, "ok")]
            /\ calls' = [calls EXCEPT ![c].pc = "done",
                           ![c].resp = RefundedResp(call.err, tx.hash)]
         \/ /\ treasury' = treasury
            /\ chain' = [chain EXCEPT !.refundCalls = RefundOutcome(c, "failed")]
            /\ calls' = [calls EXCEPT ![c].pc = "done",
                           ![c].resp = RefundFailedResp(call.err, "Refund failed")]
  /\ UNCHANGED <<nCalls, heap, offQuotes, onQuotes, journal, rateCache,
                 cacheFresh, paid, gateway>>
  /\ UNCHANGED outside

(* ----------------------- POST /onramp/initiate ------------------------- *)
\* request bodies: <<ngnAmount, userAddress>>; "0xbad" is no valid address
OnInitInputs == {<<1500, "0xA">>, <<0, "0xA">>, <<-5, "0xA">>, <<1500, "0xbad">>}
IsAddress(a) == a = "0xA"

NewOnQuote_WrongRate(ngn, addr, rate) ==
  [NoQuote EXCEPT !.dir = "on", !.ngnAmount = ngn,
                  !.usdcAmount = Mul(ngn, rate.ngnToUsdc) - 0,
                  !.userAddress = addr, !.rate = rate.usdcToNgn,
                  !.status = "pending"]
\* the on-ramp quote initiateOnramp stores
NewOnQuote(ngn, addr, rate) ==
  [NoQuote EXCEPT !.dir = "on", !.ngnAmount = ngn,
                  !.usdcAmount = Mul(ngn, rate.ngnToUsdc) - 0,
                  !.userAddress = addr, !.rate = rate.ngnToUsdc,
                  !.status = "pending"]

\* initiateOnramp after the rate: store the quote, record the transaction,
\* call initializePayment
OnInitStore(c, call, rate) ==
  LET q == NewOnQuote(call.amount, call.addr, rate)
  IN  /\ heap' = [heap EXCEPT ![c] = q]
      /\ onQuotes' = [onQuotes EXCEPT ![c] = c]
      /\ journal' = RecordTransaction(journal, Null, "onramp", call.addr,
                      q.usdcAmount, "pending", Null, OnId(c))
      /\ calls' = [calls EXCEPT ![c] = [call EXCEPT !.pc = "charge", !.quote = c]]

OnInitStart(c) ==
  /\ CanStart(c)
  /\ nCalls' = c
  /\ \E in \in OnInitInputs :
       LET ngn == in[1]
           addr == in[2]
           call == [IdleCall EXCEPT !.kind = "initOn", !.amount = ngn,
                                    !.addr = addr]
       IN  IF ngn = 0 \/ addr = NoAddr
           THEN /\ calls' = [calls EXCEPT ![c] = [call EXCEPT !.pc = "done",
                       !.resp = ErrResp(400, "Missing required fields")]]
                /\ UNCHANGED <<heap, onQuotes, journal>>
           ELSE IF ngn <= 0
           THEN /\ calls' = [calls EXCEPT ![c] = [call EXCEPT !.pc = "done",
                       !.resp = ErrResp(500, "Invalid NGN amount")]]
                /\ UNCHANGED <<heap, onQuotes, journal>>
           ELSE IF ~IsAddress(addr)
           THEN /\ calls' = [calls EXCEPT ![c] = [call EXCEPT !.pc = "done",
                       !.resp = ErrResp(500, "Invalid user address")]]
                /\ UNCHANGED <<heap, onQuotes, journal>>
           ELSE IF CacheHit
           THEN OnInitStore(c, call, rateCache)
           ELSE /\ calls' = [calls EXCEPT ![c] = [call EXCEPT !.pc = "fetch"]]
                /\ UNCHANGED <<heap, onQuotes, journal>>
  /\ UNCHANGED <<offQuotes, rateCache, cacheFresh, paid, gateway, chain, treasury>>
  /\ UNCHANGED outside

\* the rate fetch awaited by initiateOnramp resolves
OnInitFetched(c) ==
  /\ calls[c].kind = "initOn" /\ calls[c].pc = "fetch"
  /\ \E r \in FetchOutcomes :
       /\ FetchResolves(r)
       /\ OnInitStore(c, calls[c], Fetched(r))
  /\ UNCHANGED <<nCalls, offQuotes, paid, gateway, chain, treasury>>
  /\ UNCHANGED outside

\* initializePayment resolves: the payment link, or the gateway's error
OnInitCharged(c) ==
  /\ calls[c].kind = "initOn" /\ calls[c].pc = "charge"
  /\ \/ /\ gateway' = [gateway EXCEPT !.charge[c] = @ + 1]
        /\ calls' = [calls EXCEPT ![c].pc = "done",
             ![c].resp = OkResp(OnId(c), heap[c].usdcAmount)]
     \/ /\ gateway' = gateway
        /\ calls' = [calls EXCEPT ![c].pc = "done",
             ![c].resp = ErrResp(500, "Failed to initialize payment")]
  /\ UNCHANGED <<nCalls, heap, offQuotes, onQuotes, journal, rateCache,
                 cacheFresh, paid, chain, treasury>>
  /\ UNCHANGED outside

\* the customer completes the charge on the gateway's payment page (a lost
\* reference was charged before the restart)
CustomerPays(n) ==
  /\ ~paid[n]
  /\ n = 0 \/ gateway.charge[n] > 0
  /\ paid' = [paid EXCEPT ![n] = TRUE]
  /\ UNCHANGED <<calls, nCalls, heap, offQuotes, onQuotes, journal, rateCache,
                 cacheFresh, gateway, chain, treasury>>
  /\ UNCHANGED outside

(* ------------------ verifyPayment (poll and webhook) ------------------- *)
\* verifyPayment recreates a missing quote when the request carries the
\* user address and the NGN amount
OnDataSufficient(qd) == qd.present /\ qd.userAddress # NoAddr /\ Truthy(qd.ngnAmount)
\* the quote verifyPayment recreates from quoteData at the rate just fetched
RecreatedOnQuote(qd, rate) ==
  [NoQuote EXCEPT !.dir = "on", !.ngnAmount = qd.ngnAmount,
                  !.usdcAmount = Mul(qd.ngnAmount, rate.ngnToUsdc),
                  !.userAddress = qd.userAddress, !.rate = rate.ngnToUsdc,
                  !.status = "pending"]

AlreadyCompleted_Misspelt(quote) == quote.status = "complete"
\* verifyPayment's "already processed" check
AlreadyCompleted(quote) == quote.status = "completed"

\* POST /onramp/verify answers 500 with the error; handlePaymentSuccess
\* logs the error and the webhook answers 200
VerifyThrows(call, msg) ==
  IF call.kind = "webhook"
  THEN [call EXCEPT !.pc = "done", !.err = msg, !.resp = OkResp(Null, 0)]
  ELSE [call EXCEPT !.pc = "done", !.err = msg, !.resp = ErrResp(500, msg)]
\* verifyPayment returns {success, txHash, usdcAmount}
VerifyReturns(call, txHash, usdcAmount) ==
  IF call.kind = "webhook"
  THEN [call EXCEPT !.pc = "done", !.resp = OkResp(Null, 0)]
  ELSE [call EXCEPT !.pc = "done", !.resp = OkResp(txHash, usdcAmount)]

\* verifyPayment from the completed check to the gateway's verify call
VerifyProceed(c, call0, hp) ==
  LET quote == hp[call0.quote]
      call == [call0 EXCEPT !.seen = quote.status]
  IN  /\ heap' = hp
      /\ IF AlreadyCompleted(quote)
         THEN /\ calls' = [calls EXCEPT ![c] =
                   VerifyReturns(call, quote.txHash, quote.usdcAmount)]
              /\ gateway' = gateway
         ELSE /\ calls' = [calls EXCEPT ![c] = [call EXCEPT !.pc = "gwverify"]]
              /\ gateway' = [gateway EXCEPT !.verify[call.n] = @ + 1]

VerifyRecreate(c, call, rate) ==
  LET mine == [call EXCEPT !.quote = c]
      hp == [heap EXCEPT ![c] = RecreatedOnQuote(call.qd, rate)]
  IN  /\ onQuotes' = [onQuotes EXCEPT ![call.n] = c]
      /\ VerifyProceed(c, mine, hp)

\* verifyPayment from its entry to its first await
VerifyEnter(c, call0) ==
  LET call == [call0 EXCEPT !.quote = onQuotes[call0.n],
                            !.found = ~QuoteMissing(onQuotes[call0.n])]
  IN  IF QuoteMissing(onQuotes[call.n])
      THEN IF OnDataSufficient(call.qd)
           THEN IF CacheHit
                THEN VerifyRecreate(c, call, rateCache)
                ELSE /\ calls' = [calls EXCEPT ![c] = [call EXCEPT !.pc = "fetch"]]
                     /\ UNCHANGED <<heap, onQuotes, gateway>>
           ELSE /\ calls' = [calls EXCEPT ![c] = VerifyThrows(call, QuoteNotFound)]
                /\ UNCHANGED <<heap, onQuotes, gateway>>
      ELSE /\ onQuotes' = onQuotes
           /\ VerifyProceed(c, call, heap)

KnownOn(n) == n = 0 \/ onQuotes[n] # 0

\* POST /onramp/verify
VerifyStart(c) ==
  /\ CanStart(c)
  /\ nCalls' = c
  /\ \E n \in QuoteNs, qd \in OnQuoteDatas :
       /\ KnownOn(n)
       /\ VerifyEnter(c, [IdleCall EXCEPT !.kind = "verify", !.n = n, !.qd = qd])
  /\ UNCHANGED <<offQuotes, journal, rateCache, cacheFresh, paid, chain, treasury>>
  /\ UNCHANGED outside

\* the rate fetch awaited by verifyPayment resolves
VerifyFetched(c) ==
  /\ calls[c].kind \in {"verify", "webhook"} /\ calls[c].pc = "fetch"
  /\ \E r \in FetchOutcomes :
       /\ FetchResolves(r)
       /\ VerifyRecreate(c, calls[c], Fetched(r))
  /\ UNCHANGED <<nCalls, offQuotes, journal, paid, chain, treasury>>
  /\ UNCHANGED outside

\* paystackService.verifyPayment resolves: an error, a status other than
\* 'success', or 'success' for a settled charge; then sendUSDCToUser starts
VerifyGateway(c) ==
  /\ calls[c].kind \in {"verify", "webhook"} /\ calls[c].pc = "gwverify"
  /\ \/ calls' = [calls EXCEPT ![c] = VerifyThrows(@, "Failed to verify payment")]
     \/ /\ ~paid[calls[c].n]
        /\ calls' = [calls EXCEPT ![c] = VerifyThrows(@, "Payment not successful")]
     \/ /\ paid[calls[c].n]
        /\ calls' = [calls EXCEPT ![c].pc = "balance"]
  /\ UNCHANGED <<nCalls, heap, offQuotes, onQuotes, journal, rateCache,
                 cacheFresh, paid, gateway, chain, treasury>>
  /\ UNCHANGED outside

BalanceShort_Swapped(balance, amount) == amount < balance
\* sendUSDCToUser: balance.lt(amountWei)
BalanceShort(balance, amount) == balance < amount

\* sendUSDCToUser: balanceOf resolves, then the balance check
SendBalance(c) ==
  /\ calls[c].kind \in {"verify", "webhook"} /\ calls[c].pc = "balance"
  /\ LET amount == heap[calls[c].quote].usdcAmount
     IN  \/ calls' = [calls EXCEPT ![c] = VerifyThrows(@, "Failed to send USDC")]
         \/ /\ BalanceShort(treasury, amount)
            /\ calls' = [calls EXCEPT ![c] =
                 VerifyThrows(@, "Failed to send USDC: Insufficient treasury balance")]
         \/ /\ ~BalanceShort(treasury, amount)
            /\ calls' = [calls EXCEPT ![c].pc = "send"]
  /\ UNCHANGED <<nCalls, heap, offQuotes, onQuotes, journal, rateCache,
                 cacheFresh, paid, gateway, chain, treasury>>
  /\ UNCHANGED outside

\* sendUSDCToUser: usdcContract.transfer resolves (the transaction is
\* submitted) or is rejected
SendTransfer(c) ==
  /\ calls[c].kind \in {"verify", "webhook"} /\ calls[c].pc = "send"
  /\ LET quote == heap[calls[c].quote]
         tx == TreasuryTx(c, "onramp", quote.userAddress, quote.usdcAmount,
                          OnId(calls[c].n))
     IN  \/ /\ calls' = [calls EXCEPT ![c] = VerifyThrows(@, "Failed to send USDC")]
            /\ chain' = chain
         \/ /\ calls' = [calls EXCEPT ![c].pc = "wait", ![c].chainTx = tx.hash]
            /\ chain' = [chain EXCEPT !.sent = Append(@, tx)]
  /\ UNCHANGED <<nCalls, heap, offQuotes, onQuotes, journal, rateCache,
                 cacheFresh, paid, gateway, treasury>>
  /\ UNCHANGED outside

\* sendUSDCToUser: tx.wait(1) resolves; then the rest of verifyPayment
SendWait(c) ==
  /\ calls[c].kind \in {"verify", "webhook"} /\ calls[c].pc = "wait"
  /\ LET call == calls[c]
         q == call.quote
         cur == onQuotes[call.n]
         hash == call.chainTx
         amount == heap[q].usdcAmount
         stamped == IF cur # 0 THEN [heap EXCEPT ![cur].txHash = hash] ELSE heap
         done == [stamped EXCEPT ![q].status = "completed", ![q].txHash = hash]
     IN  \/ \* the transaction reverted, or the wait failed
            /\ calls' = [calls EXCEPT ![c] = VerifyThrows(@, "Failed to send USDC")]
            /\ UNCHANGED <<heap, journal, treasury>>
         \/ /\ treasury >= amount
            /\ treasury' = treasury - amount
            /\ heap' = done
            /\ IF HasTransaction(journal, OnId(call.n))
               THEN /\ journal' = UpdateTransactionStatus(journal, OnId(call.n),
                                    "completed", hash, Null, "")
                    /\ calls' = [calls EXCEPT ![c] =
                         VerifyReturns(call, hash, done[q].usdcAmount)]
               ELSE \* updateTransactionStatus throws
                    /\ journal' = journal
                    /\ calls' = [calls EXCEPT ![c] =
                         VerifyThrows(call, "Transaction not found")]
  /\ UNCHANGED <<nCalls, offQuotes, onQuotes, rateCache, cacheFresh, paid,
                 gateway, chain>>
  /\ UNCHANGED outside

(* --------------------- POST /webhooks/paystack ------------------------- *)
Secret == "sk_secret"
\* HMAC-SHA512 of the serialised payload under a key
Hmac(key, payload) == <<"hmac", key, payload>>
NoSignature == <<>>
VerifyWebhook_KeyOnly(payload, signature) ==
  IF signature = NoSignature THEN FALSE ELSE signature[2] = Secret
\* paystackService.verifyWebhook
VerifyWebhook(payload, signature) ==
  IF signature = NoSignature THEN FALSE
  ELSE Hmac(Secret, payload) = signature

\* webhook bodies: <<event, reference prefix, reference number>>
Events == {"charge.success", "transfer.success"}
OtherEvent(e) == IF e = "charge.success" THEN "transfer.success" ELSE "charge.success"
\* the x-paystack-signature headers a sender may attach to a payload: the
\* gateway's, and for a charge.success of an on-ramp reference also none,
\* one made with a guessed key, and the gateway's signature of another payload
Signatures(p) ==
  {Hmac(Secret, p)} \cup
  IF p[1] = "charge.success" /\ p[2] = "ONRAMP"
  THEN {NoSignature, Hmac("sk_guess", p),
        Hmac(Secret, <<OtherEvent(p[1]), p[2], p[3]>>)}
  ELSE {}

WebhookStart(c) ==
  /\ CanStart(c)
  /\ nCalls' = c
  /\ \E e \in Events, pre \in {"ONRAMP", "OFFRAMP"}, n \in QuoteNs :
     \E sig \in Signatures(<<e, pre, n>>) :
       /\ IF pre = "ONRAMP" THEN KnownOn(n) ELSE n = 0 /\ e = "charge.success"
       /\ LET call == [IdleCall EXCEPT !.kind = "webhook", !.n = n,
                         !.event = e, !.prefix = pre, !.sig = sig]
          IN  IF ~VerifyWebhook(<<e, pre, n>>, sig)
              THEN /\ calls' = [calls EXCEPT ![c] = [call EXCEPT !.pc = "done",
                          !.resp = ErrResp(401, "Invalid signature")]]
                   /\ UNCHANGED <<heap, onQuotes, gateway>>
              ELSE IF e # "charge.success" \/ pre # "ONRAMP"
              THEN /\ calls' = [calls EXCEPT ![c] = [call EXCEPT !.pc = "done",
                          !.resp = OkResp(Null, 0)]]
                   /\ UNCHANGED <<heap, onQuotes, gateway>>
              ELSE VerifyEnter(c, call)
  /\ UNCHANGED <<offQuotes, journal, rateCache, cacheFresh, paid, chain, treasury>>
  /\ UNCHANGED outside

(* --------------------------- specification ----------------------------- *)
NextOfframp ==
  \/ \E c \in Slots : OffInitStart(c)
  \/ \E c \in Slots : OffInitFetched(c)
  \/ \E c \in Slots : ExecuteStart(c)
  \/ \E c \in Slots : ExecFetched(c)
  \/ \E c \in Slots : ExecRecipient(c)
  \/ \E c \in Slots : ExecTransfer(c)
  \/ \E c \in Slots : ExecRefund(c)
  \/ BackgroundRefresh
  \/ CacheExpire

NextOnramp ==
  \/ \E c \in Slots : OnInitStart(c)
  \/ \E c \in Slots : OnInitFetched(c)
  \/ \E c \in Slots : OnInitCharged(c)
  \/ \E n \in QuoteNs : CustomerPays(n)
  \/ \E c \in Slots : VerifyStart(c)
  \/ \E c \in Slots : WebhookStart(c)
  \/ \E c \in Slots : VerifyFetched(c)
  \/ \E c \in Slots : VerifyGateway(c)
  \/ \E c \in Slots : SendBalance(c)
  \/ \E c \in Slots : SendTransfer(c)
  \/ \E c \in Slots : SendWait(c)
  \/ BackgroundRefresh
  \/ CacheExpire

Next == NextOfframp \/ NextOnramp

\* the off-ramp requests alone, the on-ramp requests alone, and both
SpecOfframp == Init /\ [][NextOfframp]_vars
SpecOnramp == Init /\ [][NextOnramp]_vars
Spec == Init /\ [][Next]_vars

\* no request is in progress
Quiet == \A c \in Slots : calls[c].pc \in {"idle", "done"}
\* the on-ramp requests of a client that awaits each answer before it sends
\* the next request (the processing page's retry loop)
NextOnrampSerial ==
  \/ Quiet /\ \E c \in Slots : OnInitStart(c)
  \/ \E c \in Slots : OnInitFetched(c)
  \/ \E c \in Slots : OnInitCharged(c)
  \/ \E n \in QuoteNs : CustomerPays(n)
  \/ Quiet /\ \E c \in Slots : VerifyStart(c)
  \/ Quiet /\ \E c \in Slots : WebhookStart(c)
  \/ \E c \in Slots : VerifyFetched(c)
  \/ \E c \in Slots : VerifyGateway(c)
  \/ \E c \in Slots : SendBalance(c)
  \/ \E c \in Slots : SendTransfer(c)
  \/ \E c \in Slots : SendWait(c)
  \/ BackgroundRefresh
  \/ CacheExpire
SpecOnrampSerial == Init /\ [][NextOnrampSerial]_vars

(* ----------------------- POST /offramp/refund -------------------------- *)
\* usdcAmount values of the request body: absent, 1, 0, -5, 'abc', '1abc', '0'
RawAmounts ==
  {NoRaw, RawValue("1", TRUE, 1, TRUE), RawValue("0", TRUE, 0, TRUE),
   RawValue("-5", TRUE, -5, TRUE), RawValue("abc", FALSE, NaN, FALSE),
   RawValue("1abc", FALSE, 1, FALSE), RawValue("0", FALSE, 0, TRUE)}
\* userAddress values: absent, an address, a short string, 42 characters
\* after 0x that are no hex digits, 42 characters without the 0x prefix
RefundAddrs == {NoAddr, "0xA", "0xbad", "0xZZ", "A42"}
StartsWith0x(a) == a \in {"0xA", "0xbad", "0xZZ"}
AddrLength(a) ==
  CASE a = NoAddr -> 0 [] a \in {"0xA", "0xZZ", "A42"} -> 42 [] OTHER -> 5
\* !value
JsFalsy(raw) == raw.s = "" \/ (raw.isNumber /\ raw.lead = 0)
ParseFloat(raw) == raw.lead
IsNaN(x) == x = NaN

\* the handler's address format check
RefundAddressOk(a) == StartsWith0x(a) /\ AddrLength(a) = 42

\* POST /api/offramp/refund up to the call of refundUSDC
ManualRefundStart(c) ==
  /\ CanStart(c)
  /\ nCalls' = c
  /\ \E a \in RefundAddrs, raw \in RawAmounts, h \in {Null, "0xok"} :
       LET call == [IdleCall EXCEPT !.kind = "manual", !.addr = a,
                                    !.raw = raw, !.txHash = h]
           amount == ParseFloat(raw)
           reject(msg) ==
             /\ calls' = [calls EXCEPT ![c] =
                  [call EXCEPT !.pc = "done", !.resp = ErrResp(400, msg)]]
             /\ chain' = chain
       IN  IF a = NoAddr \/ JsFalsy(raw)
           THEN reject("Missing required fields: userAddress, usdcAmount")
           ELSE IF ~RefundAddressOk(a)
           THEN reject("Invalid user address format")
           ELSE IF IsNaN(amount) \/ amount <= 0
           THEN reject("Invalid USDC amount")
           ELSE /\ calls' = [calls EXCEPT ![c] =
                     [call EXCEPT !.pc = "refund", !.amount = amount]]
                /\ chain' = [chain EXCEPT !.refundCalls = Append(@,
                     [call |-> c, to |-> a, amount |-> amount, txHash |-> h,
                      reason |-> "Manual refund", outcome |-> "pending"])]
  /\ UNCHANGED <<heap, offQuotes, onQuotes, journal, rateCache, cacheFresh,
                 paid, gateway, treasury, outside>>

\* refundUSDC, awaited by the handler, resolves
ManualRefundResolve(c) ==
  /\ calls[c].kind = "manual" /\ calls[c].pc = "refund"
  /\ LET call == calls[c]
         amount == call.amount * Scale
         tx == TreasuryTx(c, "refund", call.addr, amount, call.txHash)
     IN  \/ /\ treasury >= amount
            /\ treasury' = treasury - amount
            /\ chain' = [sent |-> Append(chain.sent, tx),
                         refundCalls |-> RefundOutcome(c, "ok")]
            /\ calls' = [calls EXCEPT ![c].pc = "done",
                           ![c].resp = OkResp(tx.hash, call.amount)]
         \/ /\ treasury' = treasury
            /\ chain' = [chain EXCEPT !.refundCalls = RefundOutcome(c, "failed")]
            /\ calls' = [calls EXCEPT ![c].pc = "done",
                           ![c].resp = ErrResp(500, "Refund failed")]
  /\ UNCHANGED <<nCalls, heap, offQuotes, onQuotes, journal, rateCache,
                 cacheFresh, paid, gateway, outside>>

NextRefund ==
  \/ \E c \in Slots : ManualRefundStart(c)
  \/ \E c \in Slots : ManualRefundResolve(c)
SpecRefund == Init /\ [][NextRefund]_vars

\* the variables of the backend services
services == <<calls, nCalls, heap, offQuotes, onQuotes, journal, rateCache,
              cacheFresh, paid, gateway, chain, treasury>>

(* ------------------------ GET /api/transactions ------------------------ *)
\* longest journal the listing is checked on
MaxJournal == 3
\* String.prototype.toLowerCase on the addresses used
ToLowerCase(a) ==
  CASE a = "0xA" -> "0xa" [] a = "0xB" -> "0xb" [] OTHER -> a
Owners == {"0xA", "0xa", "0xB"}
Stamps == {1, 2}
\* what recordTransaction is called with: <<userAddress, type, status,
\* timestamp>>
EntryKinds ==
  {<<a, t[1], t[2], ts>> :
     a \in Owners,
     t \in {<<"onramp", "pending">>, <<"offramp", "processing">>},
     ts \in Stamps}
\* the i-th recorded entry, of kind k
Entry(k, i) ==
  [id |-> <<k[2], i>>, type |-> k[2], userAddress |-> k[1], amount |-> 1,
   status |-> k[3], txHash |-> Null,
   reference |-> IF k[2] = "onramp" THEN OnId(0) ELSE OffId(0),
   error |-> "", timestamp |-> k[4]]
Journals == UNION {[1..n -> EntryKinds] : n \in 0..MaxJournal}

\* any journal content, no request served yet
InitJournal ==
  /\ InitServices
  /\ \E ks \in Journals : journal = [i \in 1..Len(ks) |-> Entry(ks[i], i)]
  /\ page = IdlePage
  /\ listing = NoListing

Matches_CaseSensitive(tx, userAddress, type, status) ==
  /\ tx.userAddress = userAddress
  /\ type = Null \/ tx.type = type
  /\ status = Null \/ tx.status = status
\* the filters of getUserTransactions
Matches(tx, userAddress, type, status) ==
  /\ ToLowerCase(tx.userAddress) = ToLowerCase(userAddress)
  /\ type = Null \/ tx.type = type
  /\ status = Null \/ tx.status = status

\* Array.prototype.sort((a, b) => b.timestamp - a.timestamp), a stable sort
InsertNewestFirst(sorted, tx) ==
  LET k == Cardinality({i \in 1..Len(sorted) :
                          sorted[i].timestamp >= tx.timestamp})
  IN  SubSeq(sorted, 1, k) \o <<tx>> \o SubSeq(sorted, k + 1, Len(sorted))
RECURSIVE SortNewestFirst(_)
SortNewestFirst(s) ==
  IF Len(s) = 0 THEN <<>>
  ELSE InsertNewestFirst(SortNewestFirst(SubSeq(s, 1, Len(s) - 1)), s[Len(s)])
\* Array.prototype.slice(start, end) for 0 <= start <= end
Slice(s, start, end) ==
  LET last == IF end < Len(s) THEN end ELSE Len(s)
  IN  IF start >= last THEN <<>> ELSE SubSeq(s, start + 1, last)

GetUserTransactions(j, userAddress, type, status, limit, offset) ==
  LET userTxs == SortNewestFirst(
                   SelectSeq(j, LAMBDA tx : Matches(tx, userAddress, type, status)))
  IN  [transactions |-> Slice(userTxs, offset, offset + limit),
       total |-> Len(userTxs)]

Limits == {0, 1, 2, 50}
Offsets == {0, 1, 2}
\* GET /api/transactions
GetTransactions ==
  /\ listing.code = 0
  /\ \E owner \in {NoAddr, "0xA", "0xb"}, type \in {Null, "onramp"},
        status \in {Null, "processing"}, limit \in Limits, offset \in Offsets :
       listing' =
         IF owner = NoAddr
         THEN [NoListing EXCEPT !.code = 400]
         ELSE LET result == GetUserTransactions(journal, owner, type, status,
                                                limit, offset)
              IN  [code |-> 200, owner |-> owner, type |-> type,
                   status |-> status, limit |-> limit, offset |-> offset,
                   transactions |-> result.transactions,
                   total |-> result.total]
  /\ UNCHANGED <<services, page>>

NextJournal == GetTransactions
SpecJournal == InitJournal /\ [][NextJournal]_vars

(* ----------------- OnrampProcessingPage (the client) ------------------- *)

MaxAttempts == 60
TimeoutError == "Payment verification timeout"
\* the errors POST /api/onramp/verify answers
VerifyErrors ==
  {"Payment not successful", QuoteNotFound, "Transaction not found",
   "Failed to verify payment", "Failed to send USDC",
   "Failed to send USDC: Insufficient treasury balance"}
\* an error message as its sequence of words
Words(msg) ==
  CASE msg = "Payment not successful" -> <<"Payment", "not", "successful">>
    [] msg = QuoteNotFound -> <<"Quote", "not", "found">>
    [] msg = "Transaction not found" -> <<"Transaction", "not", "found">>
    [] msg = "Failed to verify payment" -> <<"Failed", "to", "verify", "payment">>
    [] msg = "Failed to send USDC" -> <<"Failed", "to", "send", "USDC">>
    [] msg = "Failed to send USDC: Insufficient treasury balance" ->
         <<"Failed", "to", "send", "USDC", "Insufficient", "treasury", "balance">>
    [] msg = TimeoutError -> <<"Payment", "verification", "timeout">>
    [] OTHER -> <<msg>>
\* String.prototype.includes
Includes(msg, needle) ==
  \E i \in 1..(Len(Words(msg)) - Len(needle) + 1) :
    SubSeq(Words(msg), i, i + Len(needle) - 1) = needle
\* the catch clause of the poll loop: the errors it sleeps and retries after
Retryable(msg) ==
  \/ Includes(msg, <<"not", "successful">>)
  \/ Includes(msg, <<"not", "found">>)
  \/ Includes(msg, <<"Payment", "not", "successful">>)

LoopContinues_Inclusive(attempts) == attempts <= MaxAttempts
\* the loop condition (verificationResult is null whenever it is evaluated)
LoopContinues(attempts) == attempts < MaxAttempts

\* the outer catch: setError, setStatus('error'), setCurrentStage('failed')
PollFailed(p, msg) ==
  [p EXCEPT !.pc = "done", !.error = msg, !.status = "error",
            !.stage = "failed"]
\* the head of the while loop: the next verify request, or the timeout
PollLoop(p) ==
  IF LoopContinues(p.attempts)
  THEN [p EXCEPT !.pc = "request", !.requests = @ + 1]
  ELSE PollFailed(p, TimeoutError)

\* the page's effect calls verifyPayment
PollStart ==
  /\ page.pc = "idle"
  /\ \E reference \in BOOLEAN :
       page' = IF ~reference
               THEN PollFailed(page, "Payment reference not found")
               ELSE PollLoop([page EXCEPT !.reference = TRUE,
                                          !.status = "checking",
                                          !.stage = "verifying"])
  /\ UNCHANGED <<services, listing>>

\* verifyOnrampPayment resolves or rejects
PollAnswer ==
  /\ page.pc = "request"
  /\ \/ page' = [page EXCEPT !.pc = "done", !.txHash = "0xtx",
                             !.status = "confirming", !.stage = "blockchain",
                             !.lastError = "", !.unsettledOnly = FALSE]
     \/ \E e \in VerifyErrors :
          LET p == [page EXCEPT !.lastError = e,
                      !.unsettledOnly = @ /\ e = "Payment not successful"]
          IN  page' = IF Retryable(e) THEN [p EXCEPT !.pc = "sleep"]
                      ELSE PollFailed(p, e)
  /\ UNCHANGED <<services, listing>>

\* the one-second sleep ends: attempts++ and the loop continues
PollWake ==
  /\ page.pc = "sleep"
  /\ page' = PollLoop([page EXCEPT !.attempts = @ + 1])
  /\ UNCHANGED <<services, listing>>

NextPoll == PollStart \/ PollAnswer \/ PollWake
SpecPoll == Init /\ [][NextPoll]_vars

(* ------------------------------ claims --------------------------------- *)
Terminal(status) == status \in {"completed", "failed"}

\* C1: once a quote's status is completed or failed, no later step of any
\* operation changes that status.
C1_TerminalStatusNeverChanges ==
  [][\A q \in Slots :
       Terminal(heap[q].status) => heap'[q].status = heap[q].status]_vars

\* C2: of a webhook delivery and a poll request for the same on-ramp
\* reference, at most one submits the treasury-to-user transfer.
C2_WebhookAndPollSendOnce ==
  \A i, j \in DOMAIN chain.sent :
    (/\ i # j
     /\ chain.sent[i].kind = "onramp" /\ chain.sent[j].kind = "onramp"
     /\ chain.sent[i].ref = chain.sent[j].ref)
    => ~(/\ calls[chain.sent[i].by].kind = "webhook"
         /\ calls[chain.sent[j].by].kind = "verify")

\* C3: per off-ramp quote id at most one executeOfframp call reaches
\* createTransferRecipient and at most one payout is initiated.
C3_AtMostOnePayoutPerQuote ==
  \A n \in QuoteNs : gateway.recipient[n] <= 1 /\ gateway.payout[n] <= 1

\* C4: an executeOfframp call that finds the quote completed, with the same
\* quote id and tx hash, returns success with the stored transferReference.
C4_SecondExecuteReturnsStoredResult ==
  \A c \in Slots :
    (/\ calls[c].kind = "execute"
     /\ calls[c].seen = "completed"
     /\ calls[c].pc \in {"refund", "done"}
     /\ heap[calls[c].quote].txHash = calls[c].txHash)
    => /\ calls[c].pc = "done"
       /\ calls[c].resp.code = 200
       /\ calls[c].resp.ref = heap[calls[c].quote].transferReference

\* C5: a verifyPayment call for a reference whose quote is already completed
\* returns success with the stored txHash and usdcAmount, and makes neither a
\* gateway verify call nor a treasury transfer.
C5_CompletedVerifyIsCachedRead ==
  [][\A c \in Slots :
       (/\ calls[c].pc = "idle"
        /\ calls'[c].kind = "verify"
        /\ onQuotes[calls'[c].n] # 0
        /\ heap[onQuotes[calls'[c].n]].status = "completed")
       => LET quote == heap[onQuotes[calls'[c].n]]
          IN  /\ calls'[c].pc = "done"
              /\ calls'[c].resp = OkResp(quote.txHash, quote.usdcAmount)
              /\ UNCHANGED <<heap, onQuotes, gateway, chain, treasury>>]_vars
C5_Witness ==
  \E c \in Slots :
    /\ calls[c].kind = "verify" /\ calls[c].seen = "completed"
    /\ calls[c].pc = "done" /\ calls[c].resp.code = 200
    /\ calls[c].resp.ref # Null /\ calls[c].resp.amount > 0

PayoutErrors ==
  {"Failed to create transfer recipient", "Failed to initiate transfer"}
RefundsBy(c) ==
  {i \in DOMAIN chain.refundCalls : chain.refundCalls[i].call = c}

\* C6: when the payout call of an execution with a confirmed receipt fails,
\* the handler invokes the refund exactly once, with the quote's stablecoin
\* amount, the user's address and the original tx hash.
C6_PayoutFailureRefundsOnce ==
  \A c \in Slots :
    (/\ calls[c].kind = "execute"
     /\ calls[c].pc \in {"refund", "done"}
     /\ calls[c].err \in PayoutErrors
     /\ ChainConfirmed(calls[c].txHash)
     /\ calls[c].userAddress # NoAddr)
    => /\ Cardinality(RefundsBy(c)) = 1
       /\ \A i \in RefundsBy(c) :
            /\ chain.refundCalls[i].amount = heap[calls[c].quote].usdcAmount
            /\ chain.refundCalls[i].to = calls[c].userAddress
            /\ chain.refundCalls[i].txHash = calls[c].txHash

\* C7: whenever the automatic refund fails, the response carries the original
\* settlement error and the refund-failure marker with the refund error, a
\* shape distinct from the plain failure and the refund-succeeded responses.
C7_RefundFailureReported ==
  \A i \in DOMAIN chain.refundCalls :
    LET r == chain.refundCalls[i]
        resp == calls[r.call].resp
    IN  r.outcome = "failed"
        => /\ calls[r.call].pc = "done"
           /\ resp.code = 500
           /\ resp.error = r.reason
           /\ resp.refund = "failed"
           /\ resp.refundError # ""
           /\ resp # PlainFailureResp(r.reason)
           /\ resp # RefundedResp(r.reason, resp.refundTx)
C7_Witness ==
  \E i \in DOMAIN chain.refundCalls :
    /\ chain.refundCalls[i].outcome = "failed"
    /\ chain.refundCalls[i].reason \in PayoutErrors

\* C8: a settlement call for an id absent from the store, with sufficient
\* redundant data, inserts a pending quote whose counter-amount is the
\* supplied amount times the rate just obtained (executeOfframp marks it
\* processing in the same block); a call that starts once the entry exists
\* finds it and neither replaces it nor changes its amounts.
C8_ReconstructOnceAtCurrentRate ==
  [][/\ \A n \in QuoteNs :
          (/\ offQuotes[n] = 0 /\ offQuotes'[n] # 0
           /\ calls'[offQuotes'[n]].kind = "execute")
          => LET c == offQuotes'[n]
                 qd == calls'[c].qd
                 q == heap'[c]
             IN  /\ q.usdcAmount = qd.usdcAmount
                 /\ q.ngnAmount = Mul(qd.usdcAmount, rateCache'.usdcToNgn)
                 /\ q.rate = rateCache'.usdcToNgn
                 /\ q.status = "processing"
                 /\ q.userAddress = qd.userAddress
     /\ \A n \in QuoteNs :
          (/\ onQuotes[n] = 0 /\ onQuotes'[n] # 0
           /\ calls'[onQuotes'[n]].kind = "verify")
          => LET c == onQuotes'[n]
                 qd == calls'[c].qd
                 q == heap'[c]
             IN  /\ q.ngnAmount = qd.ngnAmount
                 /\ q.usdcAmount = Mul(qd.ngnAmount, rateCache'.ngnToUsdc)
                 /\ q.rate = rateCache'.ngnToUsdc
                 /\ q.status = "pending"
                 /\ q.userAddress = qd.userAddress
     /\ \A c \in Slots :
          (/\ calls[c].pc = "idle" /\ calls'[c].kind = "execute"
           /\ offQuotes[calls'[c].n] # 0)
          => LET q == offQuotes[calls'[c].n]
             IN  /\ offQuotes' = offQuotes
                 /\ calls'[c].quote = q
                 /\ heap'[q].usdcAmount = heap[q].usdcAmount
                 /\ heap'[q].ngnAmount = heap[q].ngnAmount
                 /\ heap'[q].userAddress = heap[q].userAddress
     /\ \A c \in Slots :
          (/\ calls[c].pc = "idle" /\ calls'[c].kind = "verify"
           /\ onQuotes[calls'[c].n] # 0)
          => LET q == onQuotes[calls'[c].n]
             IN  /\ onQuotes' = onQuotes
                 /\ calls'[c].quote = q
                 /\ heap' = heap]_vars
C8_Witness ==
  \E c1, c2 \in Slots :
    /\ c1 # c2
    /\ calls[c1].kind \in {"execute", "verify"}
    /\ ~calls[c1].found /\ calls[c1].quote = c1 /\ calls[c1].pc = "done"
    /\ heap[c1].rate # 0
    /\ calls[c2].kind = calls[c1].kind /\ calls[c2].n = calls[c1].n
    /\ calls[c2].found /\ calls[c2].quote = c1
    /\ calls[c2].qd # calls[c1].qd /\ calls[c2].qd.present

Payload(call) == <<call.event, call.prefix, call.n>>
Unauthenticated(call) ==
  call.sig = NoSignature \/ call.sig # Hmac(Secret, Payload(call))

\* C10: a webhook whose signature is missing or is not the HMAC of its
\* payload under the shared secret is answered 401 and never reaches
\* handlePaymentSuccess / verifyPayment: it changes no quote, journal entry,
\* gateway call or treasury transfer.
C10_UnauthenticatedWebhookRejected ==
  [][\A c \in Slots :
       /\ (calls'[c].kind = "webhook" /\ Unauthenticated(calls'[c]))
          => /\ calls'[c].pc = "done"
             /\ calls'[c].resp = ErrResp(401, "Invalid signature")
             /\ calls'[c].quote = 0
       /\ (calls[c].pc = "idle" /\ calls'[c].kind = "webhook"
           /\ Unauthenticated(calls'[c]))
          => UNCHANGED <<heap, offQuotes, onQuotes, journal, gateway, chain,
                         treasury, paid>>]_vars
C10_Witness ==
  \E c1, c2 \in Slots :
    /\ calls[c1].kind = "webhook" /\ calls[c1].sig = NoSignature
    /\ calls[c1].resp.code = 401
    /\ calls[c2].kind = "webhook" /\ calls[c2].sig # NoSignature
    /\ Unauthenticated(calls[c2]) /\ calls[c2].sig[2] = Secret
    /\ calls[c2].resp.code = 401

\* C11: when every rate source fails and the cache was never filled, the rate
\* lookup raises an error, so no quote is stored or reconstructed without a
\* rate.
C11_NoQuoteWithoutRate ==
  \A q \in Slots : heap[q].status # "absent" => heap[q].rate > 0

\* C12: the two fields of the rate cache always come from one fetch:
\* ngnToUsdc is the reciprocal of usdcToNgn (both empty before the first
\* successful fetch).
C12_RateFieldsReciprocal ==
  \/ rateCache.usdcToNgn = 0 /\ rateCache.ngnToUsdc = 0
       /\ rateCache.source = "none"
  \/ rateCache.usdcToNgn > 0 /\ rateCache.source # "none"
       /\ rateCache.ngnToUsdc = Scale \div rateCache.usdcToNgn
\* the cache was replaced by a later fetch from another source after a quote
\* had been priced
C12_Witness ==
  /\ rateCache.usdcToNgn > 0
  /\ \E q \in Slots :
       /\ heap[q].rate > 0
       /\ heap[q].rate \notin {rateCache.usdcToNgn, rateCache.ngnToUsdc}

\* C13: a quote priced by initiateOfframp / initiateOnramp from a source
\* rate r gives the user no more than the unmargined rate would:
\* off-ramp ngnAmount <= usdcAmount * r, on-ramp usdcAmount <= ngnAmount / r.
C13_MarginFavoursOperator ==
  [][\A c \in Slots :
       (/\ calls'[c].kind \in {"initOff", "initOn"}
        /\ heap[c].status = "absent" /\ heap'[c].status = "pending"
        /\ rateCache'.source # "none")
       => LET r == BaseRate(rateCache'.source)
              q == heap'[c]
          IN  IF q.dir = "off"
              THEN q.ngnAmount <= q.usdcAmount * r
              ELSE q.usdcAmount * r <= q.ngnAmount * Scale]_vars

\* C14: when no verify attempt ever succeeds because the payment is not
\* settled, the poll loop makes at most 60 attempts and then ends in stage
\* failed with an error that mentions 'timeout'.
C14_PollStopsWithTimeout ==
  /\ page.attempts <= MaxAttempts
  /\ page.requests <= MaxAttempts
  /\ (page.pc = "done" /\ page.requests > 0 /\ page.unsettledOnly)
     => /\ page.requests = MaxAttempts
        /\ page.stage = "failed" /\ page.status = "error"
        /\ Includes(page.error, <<"timeout">>)
C14_Witness ==
  /\ page.pc = "done" /\ page.unsettledOnly
  /\ page.attempts = MaxAttempts /\ page.stage = "failed"

\* C19: the poll loop retries only after 'payment not yet settled'; any
\* other error of a verify attempt ends the poll at once in stage failed.
C19_PollAbortsOnOtherErrors ==
  [][(page.pc = "request"
      /\ page'.lastError \notin {"", "Payment not successful"})
     => (page'.pc = "done" /\ page'.stage = "failed")]_vars

\* C15: when the balance read by sendUSDCToUser is below the quote's amount,
\* no transfer is submitted, the call fails with an error given to its
\* caller, and the quote is not marked completed.
C15_InsufficientBalanceSendsNothing ==
  [][\A c \in Slots :
       /\ (/\ calls[c].pc = "balance" /\ calls'[c] # calls[c]
           /\ treasury < heap[calls[c].quote].usdcAmount)
          => /\ calls'[c].pc = "done"
             /\ Includes(calls'[c].err, <<"Failed", "to", "send", "USDC">>)
             /\ calls'[c].chainTx = Null
             /\ calls'[c].kind = "verify"
                  => calls'[c].resp = ErrResp(500, calls'[c].err)
             /\ UNCHANGED <<heap, chain, treasury, journal>>
       /\ Includes(calls'[c].err, <<"Insufficient", "treasury", "balance">>)
          => \A i \in DOMAIN chain'.sent : chain'.sent[i].by # c]_vars
C15_Witness ==
  \E c \in Slots :
    /\ calls[c].kind = "verify" /\ calls[c].pc = "done"
    /\ calls[c].err = "Failed to send USDC: Insufficient treasury balance"
    /\ calls[c].resp.code = 500
    /\ heap[calls[c].quote].status = "pending"

\* C16: POST /offramp/refund calls the refund operation only for requests
\* with a well-formed user address and a numeric, positive amount; every
\* other request is answered with a validation error.
C16_ManualRefundValidated ==
  \A c \in Slots :
    calls[c].kind = "manual"
    => IF IsAddress(calls[c].addr) /\ calls[c].raw.numeric
          /\ calls[c].raw.lead > 0
       THEN calls[c].pc \in {"refund", "done"} /\ RefundsBy(c) # {}
       ELSE /\ calls[c].pc = "done" /\ calls[c].resp.code = 400
            /\ RefundsBy(c) = {}

\* case-insensitive equality of two addresses
SameOwner(a, b) ==
  a = b \/ {a, b} = {"0xA", "0xa"} \/ {a, b} = {"0xB", "0xb"}
\* the journal positions a listing request selects
Selected ==
  {i \in DOMAIN journal :
     /\ SameOwner(journal[i].userAddress, listing.owner)
     /\ listing.type # Null => journal[i].type = listing.type
     /\ listing.status # Null => journal[i].status = listing.status}

\* C17: getUserTransactions returns exactly the owner's entries
\* (case-insensitively) that pass the type and status filters, newest first,
\* cut to [offset, offset + limit); total counts the entries before the cut.
C17_ListingIsFilteredSortedPage ==
  listing.code = 200
  => LET r == listing.transactions
         n == Cardinality(Selected)
         rest == IF n > listing.offset THEN n - listing.offset ELSE 0
         Newer(i) == {m \in Selected :
                        journal[m].timestamp > journal[i].timestamp}
         NotOlder(i) == {m \in Selected :
                           journal[m].timestamp >= journal[i].timestamp}
     IN  /\ listing.total = n
         /\ Len(r) = IF listing.limit < rest THEN listing.limit ELSE rest
         /\ \A k \in 1..Len(r) :
              \E i \in Selected :
                /\ r[k] = journal[i]
                /\ Cardinality(Newer(i)) <= listing.offset + k - 1
                /\ listing.offset + k <= Cardinality(NotOlder(i))
         /\ \A k1, k2 \in 1..Len(r) : k1 # k2 => r[k1] # r[k2]
C17_Witness ==
  /\ listing.code = 200 /\ listing.total = 3 /\ listing.offset = 1
  /\ Len(listing.transactions) = 2
  /\ listing.transactions[1].userAddress # listing.transactions[2].userAddress
  /\ listing.transactions[1].timestamp > listing.transactions[2].timestamp
  /\ Len(journal) = 3 /\ journal[1].timestamp > journal[2].timestamp

\* C18: a quote stored by initiateOnramp or initiateOfframp is pending, holds
\* the requested amount, and its counter-amount is that amount times the rate
\* recorded in the same quote, with no fee taken off; an on-ramp initiation
\* that answers 200 has obtained a payment link for that quote.
C18_StoredQuoteConsistent ==
  [][\A c \in Slots :
       /\ (/\ calls'[c].kind \in {"initOff", "initOn"}
           /\ heap[c].status = "absent" /\ heap'[c].status # "absent")
          => LET q == heap'[c]
             IN  /\ q.status = "pending"
                 /\ calls'[c].kind = "initOff"
                      => /\ q.dir = "off" /\ q.usdcAmount = calls'[c].amount
                         /\ q.ngnAmount = q.usdcAmount * q.rate
                         /\ offQuotes'[c] = c
                 /\ calls'[c].kind = "initOn"
                      => /\ q.dir = "on" /\ q.ngnAmount = calls'[c].amount
                         /\ q.usdcAmount = q.ngnAmount * q.rate
                         /\ onQuotes'[c] = c
       /\ (/\ calls'[c].kind = "initOn"
           /\ calls[c].resp.code # 200 /\ calls'[c].resp.code = 200)
          => /\ gateway'.charge[c] >= 1
             /\ heap'[c].status = "pending"
             /\ calls'[c].resp.amount = heap'[c].ngnAmount * heap'[c].rate]_vars
\* an on-ramp quote priced at a fetched rate with its payment link, next to
\* an off-ramp quote priced at a fetched rate
C18_Witness ==
  \E c1, c2 \in Slots :
    /\ calls[c1].kind = "initOn" /\ calls[c1].resp.code = 200
    /\ heap[c1].status = "pending" /\ heap[c1].rate > 0
    /\ heap[c1].usdcAmount = heap[c1].ngnAmount * heap[c1].rate
    /\ gateway.charge[c1] >= 1
    /\ calls[c2].kind = "initOff" /\ calls[c2].pc = "done"
    /\ heap[c2].status = "pending" /\ heap[c2].rate > 0
    /\ heap[c2].ngnAmount = heap[c2].usdcAmount * heap[c2].rate

\* C20: a verifyPayment call does not submit the treasury transfer for an
\* on-ramp reference for which an earlier call already submitted one and
\* then failed while waiting for its confirmation.
C20_NoResubmitAfterFailedWait ==
  [][\A c \in Slots :
       (/\ calls[c].kind \in {"verify", "webhook"}
        /\ calls[c].pc = "send" /\ calls'[c].pc = "wait")
       => \A i \in DOMAIN chain.sent :
            (/\ chain.sent[i].kind = "onramp"
             /\ chain.sent[i].ref = OnId(calls[c].n))
            => ~(/\ calls[chain.sent[i].by].pc = "done"
                 /\ calls[chain.sent[i].by].resp.error = "Failed to send USDC")]_vars

\* C21: when the wait for the treasury transfer of an on-ramp quote fails
\* (the transfer reverted), the quote becomes failed; it does not stay
\* pending.
C21_RevertedTransferFailsQuote ==
  [][\A c \in Slots :
       (/\ calls[c].kind \in {"verify", "webhook"}
        /\ calls[c].pc = "wait" /\ calls'[c].pc = "done"
        /\ calls'[c].err = "Failed to send USDC")
       => heap'[calls[c].quote].status = "failed"]_vars

\* C22: an on-ramp quote becomes completed only in the step in which the wait
\* for one confirmation succeeds, for a call that got the gateway's
\* 'success' for its reference and then submitted a treasury transfer of the
\* quote's usdcAmount to the quote's userAddress; the quote then carries that
\* transfer's hash, and a completed quote never has a null txHash.
C22_CompletedOnlyAfterConfirmedTransfer ==
  [][\A q \in Slots :
       /\ (/\ heap'[q].dir = "on"
           /\ heap[q].status # "completed" /\ heap'[q].status = "completed")
          => \E c \in Slots :
               /\ calls[c].kind \in {"verify", "webhook"}
               /\ calls[c].pc = "wait" /\ calls'[c].pc = "done"
               /\ calls[c].quote = q
               /\ paid[calls[c].n]
               /\ calls[c].chainTx # Null
               /\ heap'[q].txHash = calls[c].chainTx
               /\ treasury' = treasury - heap'[q].usdcAmount
               /\ \E i \in DOMAIN chain.sent :
                    /\ chain.sent[i].hash = calls[c].chainTx
                    /\ chain.sent[i].by = c
                    /\ chain.sent[i].kind = "onramp"
                    /\ chain.sent[i].ref = OnId(calls[c].n)
                    /\ chain.sent[i].amount = heap'[q].usdcAmount
                    /\ chain.sent[i].to = heap'[q].userAddress
       /\ (heap[q].dir = "on" /\ heap[q].status = "completed")
          => heap'[q].txHash # Null]_vars
\* a stored on-ramp quote completed by a poll request that was answered with
\* the transfer's hash
C22_Witness ==
  \E c \in Slots, n \in Slots :
    /\ calls[c].kind = "verify" /\ calls[c].n = n /\ calls[c].pc = "done"
    /\ onQuotes[n] # 0
    /\ heap[onQuotes[n]].status = "completed"
    /\ heap[onQuotes[n]].txHash # Null
    /\ \E i \in DOMAIN chain.sent :
         /\ chain.sent[i].hash = heap[onQuotes[n]].txHash
         /\ chain.sent[i].to = "0xA"
         /\ chain.sent[i].amount = heap[onQuotes[n]].usdcAmount
    /\ treasury < InitialTreasury

\* C23: executeOfframp reaches the gateway (createTransferRecipient,
\* initiateTransfer) only for a txHash that names a confirmed, successful
\* on-chain transfer; with a reverted or unconfirmed txHash no payout is
\* initiated.
C23_PayoutOnlyAfterConfirmedDeposit ==
  [][\A c \in Slots :
       (/\ calls[c].kind = "execute"
        /\ calls[c].pc \in {"recipient", "transfer"}
        /\ calls'[c].pc # calls[c].pc
        /\ gateway' # gateway)
       => ChainConfirmed(calls[c].txHash)]_vars

\* the quote object the store holds for the id a journal entry refers to
\* (0: none)
QuoteOf(reference) ==
  IF reference[1] = "ONRAMP" THEN onQuotes[reference[2]]
  ELSE offQuotes[reference[2]]

\* C24: a journal entry made for a quote has the quote's id as its id, and,
\* when no request is in progress, the status of the quote.
C24_JournalEntryFollowsQuote ==
  \A i \in DOMAIN journal :
    /\ journal[i].id = journal[i].reference
    /\ (Quiet /\ QuoteOf(journal[i].reference) # 0)
       => journal[i].status = heap[QuoteOf(journal[i].reference)].status

\* C25: a verifyPayment failure on the webhook path is recorded on the quote
\* or its journal entry, or the webhook is not answered with success; a
\* failure of executeOfframp is never answered with success.
C25_NoSilentSettlementFailure ==
  \A c \in Slots :
    (calls[c].pc = "done" /\ calls[c].err # "")
    => /\ calls[c].kind = "webhook"
          => \/ calls[c].resp.code # 200
             \/ /\ calls[c].quote # 0
                /\ heap[calls[c].quote].status = "failed"
             \/ \E i \in DOMAIN journal :
                  /\ journal[i].reference = OnId(calls[c].n)
                  /\ journal[i].status = "failed"
       /\ calls[c].kind = "execute" => calls[c].resp.code # 200

\* C26: a request that asks for the rate while the cache holds a rate younger
\* than the TTL goes on with that cached rate in the same step: it starts no
\* fetch from a rate source and leaves the cache as it is, whatever other
\* requests are in progress.
C26_FreshCacheServedWithoutFetch ==
  [][\A c \in Slots :
       (/\ calls[c].pc = "idle" /\ calls'[c].pc # "idle"
        /\ rateCache.usdcToNgn # 0 /\ cacheFresh)
       => /\ calls'[c].pc # "fetch"
          /\ rateCache' = rateCache /\ cacheFresh' = cacheFresh
          /\ (heap[c].status = "absent" /\ heap'[c].status # "absent")
             => heap'[c].rate = IF heap'[c].dir = "off"
                                THEN rateCache.usdcToNgn
                                ELSE rateCache.ngnToUsdc]_vars
\* an off-ramp quote priced from the shared cache while an on-ramp initiation
\* priced from the same cache is still waiting for the gateway
C26_Witness ==
  \E c1, c2 \in Slots :
    /\ c1 < c2 /\ cacheFresh /\ rateCache.usdcToNgn # 0
    /\ calls[c1].kind = "initOn" /\ calls[c1].pc = "charge"
    /\ heap[c1].rate = rateCache.ngnToUsdc
    /\ calls[c2].kind = "initOff" /\ calls[c2].pc = "done"
    /\ heap[c2].status = "pending"
    /\ heap[c2].rate = rateCache.usdcToNgn

\* C27: a quote reconstructed for a missing id is inserted once: a call that
\* was waiting for the rate when the entry appeared does not replace the
\* entry, and the status it has reached, by a fresh quote built from its own
\* data.
C27_ReconstructedEntryNotReplaced ==
  [][\A n \in QuoteNs :
       /\ offQuotes[n] # 0 => offQuotes'[n] = offQuotes[n]
       /\ onQuotes[n] # 0 => onQuotes'[n] = onQuotes[n]]_vars

\* an executeOfframp call holds quote q between the status check and its
\* return or throw
ExecInFlight(c, q) ==
  /\ calls[c].kind = "execute" /\ calls[c].quote = q
  /\ calls[c].pc \in {"recipient", "transfer"}

\* C28: an executeOfframp call that passed the status check leaves its quote
\* terminal: it returns success with the quote completed, or throws with the
\* quote failed and the error message stored on it; an off-ramp quote is
\* processing only while an executeOfframp call on it is in flight.
C28_ExecuteEndsTerminal ==
  /\ [](\A q \in Slots :
          (heap[q].dir = "off" /\ heap[q].status = "processing")
          => \E c \in Slots : ExecInFlight(c, q))
  /\ [][\A c \in Slots :
          (/\ ExecInFlight(c, calls[c].quote)
           /\ calls'[c].pc \notin {"recipient", "transfer"})
          => LET q == heap'[calls[c].quote]
             IN  IF calls'[c].err = ""
                 THEN /\ calls'[c].pc = "done" /\ calls'[c].resp.code = 200
                      /\ q.status = "completed"
                      /\ calls'[c].resp.ref = q.transferReference
                 ELSE /\ q.status = "failed"
                      /\ q.error = calls'[c].err]_vars
\* one call returned success for a completed quote, another threw on a quote
\* left failed with the gateway's error
C28_Witness ==
  \E c1, c2 \in Slots :
    /\ calls[c1].kind = "execute" /\ calls[c1].pc = "done"
    /\ calls[c1].resp.code = 200
    /\ heap[calls[c1].quote].status = "completed"
    /\ calls[c2].kind = "execute" /\ calls[c2].pc = "done"
    /\ calls[c2].resp.code = 500
    /\ calls[c2].quote \notin {0, calls[c1].quote}
    /\ heap[calls[c2].quote].status = "failed"
    /\ heap[calls[c2].quote].error \in PayoutErrors

\* C29: the POST /offramp/execute handler attempts the automatic refund only
\* for a request whose gateway payout failed: never for a request rejected
\* before any settlement step, and never when the payout of that request
\* was initiated.
C29_RefundOnlyAfterFailedPayout ==
  \A i \in DOMAIN chain.refundCalls :
    /\ chain.refundCalls[i].reason \in PayoutErrors
    /\ chain.refundCalls[i].reason
         \notin {QuoteNotFound, AlreadyProcessed("completed"),
                  AlreadyProcessed("failed"), "Transaction not found"}

\* C30: initiateOnramp is all-or-nothing: a call that failed has left no
\* quote in the on-ramp store and no entry in the journal.
C30_FailedInitiationLeavesNothing ==
  \A c \in Slots :
    (calls[c].kind = "initOn" /\ calls[c].pc = "done"
     /\ calls[c].resp.code # 200)
    => /\ onQuotes[c] = 0
       /\ \A i \in DOMAIN journal : journal[i].reference # OnId(c)
====
